---- MODULE Spec2Model ----
(***************************************************************************)
(* MidasNet (dpt/midas_net.py): construction from a configuration mapping  *)
(* and the forward pass through backbone, projections, fusion chain and    *)
(* output head.  Tensors are modelled by their producer, their shape and   *)
(* one representative integer pixel value.                                 *)
(***************************************************************************)
EXTENDS Integers, Sequences, FiniteSets, TLC

VARIABLES
    blocks,     \* the caller's configuration mapping (aliased by self.blocks)
    margs,      \* the other constructor arguments
    encoder,    \* what _make_encoder returns for the backbone: attribute shape
    mods,       \* every nn.Module of interest: owner, kind, training, requires_grad
    self,       \* the MidasNet object
    x,          \* the image batch passed to forward: its shape
    raw,        \* the value the convolution kernels produce (opaque learned result)
    pc,         \* position: new, failed, ready, the forward stages, returned, raised
    err,        \* the exception raised, "none" when none
    calls,      \* forward calls started
    layer,      \* forward locals layer_1..layer_4
    layer_rn,   \* forward locals layer_1_rn..layer_4_rn
    path,       \* forward locals path_1..path_4
    out,        \* forward local out
    ret,        \* what forward returned: <<>>, <<out>> or <<out, auxout>>
    log         \* the stages executed in this forward call, with what each consumed

vars == <<blocks, margs, encoder, mods, self, x, raw, pc, err, calls,
          layer, layer_rn, path, out, ret, log>>

-----------------------------------------------------------------------------
(* Bounds of the model *)

MaxCalls == 2      \* forward calls per model
MaxBatch == 2      \* batch sizes 1..MaxBatch
MaxMult  == 2      \* image sides 32, 64, .. 32*MaxMult
MaxRaw   == 2      \* kernel results -MaxRaw..MaxRaw
MaxScale == 2      \* configured scale and shift -MaxScale..MaxScale
NumBackboneMods == 2   \* modules inside the backbone

(* Program constants *)

Features   == 256  \* features=256
NumClasses == 150  \* num_classes=150
HeadMid    == 32   \* the depth head's 32-channel layer

-----------------------------------------------------------------------------
(* Python values held by the mapping.  True == 1 and False == 0 in Python,  *)
(* so bool and int compare by number.                                      *)

PyBool(v) == [tag |-> "bool", n |-> IF v THEN 1 ELSE 0, s |-> ""]
PyInt(k)  == [tag |-> "int",  n |-> k, s |-> ""]
PyStr(t)  == [tag |-> "str",  n |-> 0, s |-> t]
PyList(t) == [tag |-> "list", n |-> 0, s |-> t]
PyNone    == [tag |-> "None", n |-> 0, s |-> ""]
PyTrue    == PyBool(TRUE)
PyFalse   == PyBool(FALSE)

PyEq(a, b) ==
    IF a.tag \in {"bool", "int"} /\ b.tag \in {"bool", "int"}
    THEN a.n = b.n
    ELSE a = b

Has(blk, k) == k \in DOMAIN blk

\* blk[k] = v for a mapping entry: d[k] = v
SetItem(blk, k, v) == [j \in DOMAIN blk \cup {k} |-> IF j = k THEN v ELSE blk[j]]

EmptyDict == [j \in {} |-> PyNone]

Keys == {"activation", "batch_norm", "freeze_bn", "expand", "hooks",
         "use_readout", "aux", "widehead", "widehead_hr", "scale", "shift"}

\* the default value of the blocks parameter
DefaultBlocks ==
    [j \in {"activation", "batch_norm", "freeze_bn", "expand", "hooks",
            "use_readout", "aux", "widehead", "scale", "shift"} |->
        CASE j = "activation"  -> PyStr("relu")
          [] j = "batch_norm"  -> PyFalse
          [] j = "freeze_bn"   -> PyTrue
          [] j = "expand"      -> PyFalse
          [] j = "hooks"       -> PyList("[0, 1, 8, 11]")
          [] j = "use_readout" -> PyStr("project")
          [] j = "aux"         -> PyNone
          [] j = "widehead"    -> PyFalse
          [] j = "scale"       -> PyInt(1)
          [] j = "shift"       -> PyInt(0)]

-----------------------------------------------------------------------------
(* Tensors and layers *)

Tensor(id, shape, val) == [id |-> id, shape |-> shape, val |-> val]
Unbound   == Tensor("unbound", <<>>, 0)     \* a local never assigned
BadTensor == Tensor("error", <<>>, 0)       \* a primitive rejected its input

Max(a, b) == IF a >= b THEN a ELSE b

Layer(op, cin, cout, k, s, p, f, act) ==
    [op |-> op, cin |-> cin, cout |-> cout, k |-> k, s |-> s, p |-> p,
     f |-> f, act |-> act]
Conv2d(cin, cout, k, s, p) == Layer("Conv2d", cin, cout, k, s, p, 1, "")
Interpolate(f)   == Layer("Interpolate", 0, 0, 0, 1, 0, f, "")
BatchNorm2d(c)   == Layer("BatchNorm2d", c, c, 0, 1, 0, 1, "")
Dropout          == Layer("Dropout", 0, 0, 0, 1, 0, 1, "")
ReLU             == Layer("ReLU", 0, 0, 0, 1, 0, 1, "")
Identity         == Layer("Identity", 0, 0, 0, 1, 0, 1, "")
Activation(a)    == Layer("Activation", 0, 0, 0, 1, 0, 1, a)

\* the installed activation applied to one value
Activate(a, v) ==
    CASE a = "ReLU"      -> Max(0, v)
      [] a = "LeakyReLU" -> IF v >= 0 THEN v ELSE 0 - ((0 - v) \div 10)
      [] OTHER           -> v

\* one layer of an nn.Sequential applied to a (batch, channel, height, width) map
ApplyLayer(l, t, r) ==
    IF t.id = "error" \/ Len(t.shape) # 4 THEN BadTensor
    ELSE CASE l.op = "Conv2d" ->
                IF t.shape[2] # l.cin THEN BadTensor
                ELSE Tensor(t.id,
                            <<t.shape[1], l.cout,
                              (t.shape[3] + 2 * l.p - l.k) \div l.s + 1,
                              (t.shape[4] + 2 * l.p - l.k) \div l.s + 1>>, r)
           [] l.op = "Interpolate" ->
                Tensor(t.id, <<t.shape[1], t.shape[2],
                               t.shape[3] * l.f, t.shape[4] * l.f>>, t.val)
           [] l.op = "BatchNorm2d" ->
                IF t.shape[2] # l.cin THEN BadTensor ELSE t
           [] l.op = "ReLU" -> Tensor(t.id, t.shape, Max(0, t.val))
           [] l.op = "Activation" -> Tensor(t.id, t.shape, Activate(l.act, t.val))
           [] OTHER -> t

RECURSIVE Sequential(_, _, _)
Sequential(ls, t, r) ==
    IF ls = <<>> THEN t ELSE Sequential(Tail(ls), ApplyLayer(Head(ls), t, r), r)

-----------------------------------------------------------------------------
(* MidasNet.__init__ *)

\* self.bn
Bn(blk) == Has(blk, "batch_norm") /\ PyEq(blk["batch_norm"], PyTrue)

\* self.hooks
Hooks(blk) == IF Has(blk, "hooks") THEN blk["hooks"] ELSE PyNone

\* self.use_readout
UseReadout(blk) == IF Has(blk, "use_readout") THEN blk["use_readout"] ELSE PyStr("ignore")

\* self.scale
Scale(blk) == IF Has(blk, "scale") THEN blk["scale"] ELSE PyInt(1)

\* self.shift
Shift(blk) == IF Has(blk, "shift") THEN blk["shift"] ELSE PyInt(0)


\* a constructor that writes the default activation into the caller's mapping
BlocksAfterActivation_relu(blk) ==
    IF ~Has(blk, "activation") THEN SetItem(blk, "activation", PyStr("relu")) ELSE blk

\* if "activation" not in self.blocks: blocks["activation"] = None
BlocksAfterActivation(blk) ==
    IF ~Has(blk, "activation") THEN SetItem(blk, "activation", PyNone) ELSE blk

\* the if/elif chain choosing self.scratch.activation; Mish and HardMish are
\* names the module neither defines nor imports
SelectActivation(blk) ==
    CASE PyEq(blk["activation"], PyStr("mish"))      -> [err |-> "NameError: Mish", act |-> ""]
      [] PyEq(blk["activation"], PyStr("hard_mish")) -> [err |-> "NameError: HardMish", act |-> ""]
      [] PyEq(blk["activation"], PyStr("leaky"))     -> [err |-> "none", act |-> "LeakyReLU"]
      [] PyEq(blk["activation"], PyStr("relu"))      -> [err |-> "none", act |-> "ReLU"]
      [] OTHER                                       -> [err |-> "none", act |-> "Identity"]

\* FeatureFusionBlock_custom(features, activation, deconv=False, bn=..., expand=...)
FusionBlock(act, bn) ==
    [features |-> Features, activation |-> act, deconv |-> FALSE, bn |-> bn,
     expand |-> FALSE]

\* self.scratch.refinenet4 .. refinenet1, all given self.scratch.activation
Refinenets(act, bn) == [i \in 1..4 |-> FusionBlock(act, bn)]


\* a depth head whose first convolution has no padding
DepthHead_nopad(act, non_negative) ==
    << Conv2d(Features, Features \div 2, 3, 1, 0),
       Interpolate(2),
       Conv2d(Features \div 2, HeadMid, 3, 1, 1),
       Activation(act),
       Conv2d(HeadMid, 1, 1, 1, 0),
       IF non_negative THEN ReLU ELSE Identity,
       Identity >>

\* the depth head
DepthHead(act, non_negative) ==
    << Conv2d(Features, Features \div 2, 3, 1, 1),
       Interpolate(2),
       Conv2d(Features \div 2, HeadMid, 3, 1, 1),
       Activation(act),
       Conv2d(HeadMid, 1, 1, 1, 0),
       IF non_negative THEN ReLU ELSE Identity,
       Identity >>

\* the wide segmentation head
WideHead ==
    << Conv2d(Features, Features, 3, 1, 1),
       BatchNorm2d(Features),
       ReLU,
       Dropout,
       Conv2d(Features, NumClasses, 1, 1, 0),
       Interpolate(2) >>

\* the wide high-resolution segmentation head
WideHeadHr ==
    << Conv2d(Features, Features, 3, 1, 1),
       Interpolate(2),
       Dropout,
       Conv2d(Features, NumClasses, 1, 1, 0) >>

\* the plain segmentation head
SegHead ==
    << Conv2d(Features, Features \div 2, 3, 1, 1),
       Interpolate(2),
       Dropout,
       Conv2d(Features \div 2, NumClasses, 1, 1, 0) >>

\* self.scratch.output_conv: the head chosen by monodepth, widehead, widehead_hr;
\* blocks["widehead"] and blocks["widehead_hr"] are subscripted without a test
OutputConv(blk, monodepth, non_negative, act) ==
    IF monodepth THEN [err |-> "none", head |-> "depth", layers |-> DepthHead(act, non_negative)]
    ELSE IF ~Has(blk, "widehead") THEN [err |-> "KeyError: widehead", head |-> "", layers |-> <<>>]
    ELSE IF PyEq(blk["widehead"], PyTrue)
         THEN [err |-> "none", head |-> "widehead", layers |-> WideHead]
    ELSE IF ~Has(blk, "widehead_hr") THEN [err |-> "KeyError: widehead_hr", head |-> "", layers |-> <<>>]
    ELSE IF PyEq(blk["widehead_hr"], PyTrue)
         THEN [err |-> "none", head |-> "widehead_hr", layers |-> WideHeadHr]
    ELSE [err |-> "none", head |-> "seg", layers |-> SegHead]

\* self.auxlayer: built from features2, a name that is never bound
AuxLayer(blk) ==
    IF Has(blk, "aux") /\ PyEq(blk["aux"], PyTrue)
    THEN [err |-> "NameError: features2", present |-> FALSE, layers |-> <<>>]
    ELSE [err |-> "none", present |-> FALSE, layers |-> <<>>]

\* self.freeze_bn
FreezeBn(blk) == ~(Has(blk, "freeze_bn") /\ PyEq(blk["freeze_bn"], PyFalse))

Module(owner, kind) ==
    [owner |-> owner, kind |-> kind, training |-> TRUE, wgrad |-> TRUE, bgrad |-> TRUE]

\* the submodules the constructor creates outside the backbone
RECURSIVE LayerModules(_, _)
LayerModules(owner, ls) ==
    IF ls = <<>> THEN <<>>
    ELSE <<Module(owner, Head(ls).op)>> \o LayerModules(owner, Tail(ls))

\* the batch norms a fusion block built with bn=True holds
FusionModules(bn) ==
    IF bn THEN [i \in 1..4 |-> Module("scratch.refinenet", "BatchNorm2d")] ELSE <<>>

DecoderModules(bn, layers, auxlayers) ==
    FusionModules(bn)
    \o LayerModules("scratch.output_conv", layers)
    \o LayerModules("auxlayer", auxlayers)

\* one pass of the loop body over a module of self.pretrained.modules()
FreezeOne(m) ==
    IF m.kind = "BatchNorm2d" \/ m.kind = "LayerNorm"
    THEN [m EXCEPT !.training = FALSE, !.wgrad = FALSE, !.bgrad = FALSE]
    ELSE m


\* a loop over self.modules() instead of self.pretrained.modules()
FreezeModules_all(ms) == [j \in DOMAIN ms |-> FreezeOne(ms[j])]

\* for m in self.pretrained.modules(): ...
FreezeModules(ms) ==
    [j \in DOMAIN ms |-> IF ms[j].owner = "pretrained" THEN FreezeOne(ms[j]) ELSE ms[j]]

\* self.load(path): parameters are filled in place, modes and flags are kept
Load(ms) == ms

NoSelf ==
    [constructed |-> FALSE, bn |-> FALSE, hooks |-> PyNone, use_readout |-> PyNone,
     scale |-> PyNone, shift |-> PyNone, activation |-> "", refinenet |-> <<>>,
     head |-> "", output_conv |-> <<>>, has_aux |-> FALSE, auxlayer |-> <<>>,
     loaded |-> FALSE, freeze_bn |-> FALSE]

\* the first exception of the constructor body, in statement order
ConstructErr(blk, monodepth, non_negative) ==
    LET a == SelectActivation(blk) IN
    IF a.err # "none" THEN a.err
    ELSE LET oc == OutputConv(blk, monodepth, non_negative, a.act) IN
         IF oc.err # "none" THEN oc.err ELSE AuxLayer(blk).err

\* the object a constructor body that raised nothing leaves
Constructed(blk, monodepth, non_negative, hasPath) ==
    LET a  == SelectActivation(blk)
        oc == OutputConv(blk, monodepth, non_negative, a.act)
        ax == AuxLayer(blk)
    IN [constructed |-> TRUE, bn |-> Bn(blk), hooks |-> Hooks(blk),
        use_readout |-> UseReadout(blk), scale |-> Scale(blk), shift |-> Shift(blk),
        activation |-> a.act, refinenet |-> Refinenets(a.act, Bn(blk)),
        head |-> oc.head, output_conv |-> oc.layers,
        has_aux |-> ax.present, auxlayer |-> ax.layers,
        loaded |-> hasPath, freeze_bn |-> FreezeBn(blk)]

\* the modules after construction: decoder created, weights loaded, backbone frozen
ConstructedModules(ms, obj, hasPath) ==
    LET all    == ms \o DecoderModules(obj.bn, obj.output_conv, obj.auxlayer)
        loaded == IF hasPath THEN Load(all) ELSE all
    IN IF obj.freeze_bn THEN FreezeModules(loaded) ELSE loaded

Construct ==
    /\ pc = "new"
    /\ LET b1 == BlocksAfterActivation(blocks)
           e  == ConstructErr(b1, margs.monodepth, margs.non_negative)
           o  == Constructed(b1, margs.monodepth, margs.non_negative, margs.path)
       IN /\ blocks' = b1
          /\ err' = e
          /\ pc' = IF e = "none" THEN "ready" ELSE "failed"
          /\ self' = IF e = "none" THEN o ELSE NoSelf
          /\ mods' = IF e = "none" THEN ConstructedModules(mods, o, margs.path) ELSE mods
    /\ UNCHANGED <<margs, encoder, x, raw, calls, layer, layer_rn, path, out, ret, log>>

-----------------------------------------------------------------------------
(* MidasNet.forward *)

ProjName == <<"layer1_rn", "layer2_rn", "layer3_rn", "layer4_rn">>
RefName  == <<"refinenet1", "refinenet2", "refinenet3", "refinenet4">>
LayerName == <<"layer1", "layer2", "layer3", "layer4">>

\* channel counts of the backbone's four maps
BackboneCh == <<256, 512, 1024, 2048>>

\* the backbone's maps lie at strides 4, 8, 16 and 32 of the image
Stride(i) == 2 ^ (i + 1)

NoLocals == [i \in 1..4 |-> Unbound]

\* forward_vit(self.pretrained, x): the four hooked maps
ForwardVit(img, r) ==
    [i \in 1..4 |->
        Tensor(LayerName[i],
               <<img.shape[1], BackboneCh[i],
                 img.shape[3] \div Stride(i), img.shape[4] \div Stride(i)>>, r)]

\* self.pretrained.layer<i>(t): layer1 reduces the image by 4, each later one by 2
PretrainedLayer(i, t, r) ==
    LET d == IF i = 1 THEN 4 ELSE 2 IN
    Tensor(LayerName[i],
           <<t.shape[1], BackboneCh[i], t.shape[3] \div d, t.shape[4] \div d>>, r)

\* layer_1 = layer1(x); layer_2 = layer2(layer_1); ...
ChainedLayers(img, r) ==
    LET l1 == PretrainedLayer(1, img, r)
        l2 == PretrainedLayer(2, l1, r)
        l3 == PretrainedLayer(3, l2, r)
        l4 == PretrainedLayer(4, l3, r)
    IN <<l1, l2, l3, l4>>

\* the branch that binds layer_1..layer_4; a backbone with a model attribute
\* whose model has no patch_size takes neither assignment
ExtractLayers(enc, img, r) ==
    IF enc.has_model
    THEN IF enc.has_patch_size THEN ForwardVit(img, r) ELSE NoLocals
    ELSE ChainedLayers(img, r)

Retag(t, id) == IF t.id = "error" THEN t ELSE [t EXCEPT !.id = id]

\* self.scratch.layer<i>_rn: 3x3 projection to the common width, size kept
LayerRn(i, t, r) ==
    Retag(ApplyLayer(Conv2d(BackboneCh[i], Features, 3, 1, 1), t, r), ProjName[i])

\* FeatureFusionBlock_custom.forward(*xs): add the skip map to the coarse one,
\* transform, then upsample by 2
FeatureFusion(i, blk, xs, r) ==
    LET c == xs[1] IN
    IF c.id = "error" \/ Len(c.shape) # 4 \/ c.shape[2] # blk.features THEN BadTensor
    ELSE IF Len(xs) = 2 /\ xs[2].shape # c.shape THEN BadTensor
    ELSE Tensor(RefName[i],
                <<c.shape[1], c.shape[2], 2 * c.shape[3], 2 * c.shape[4]>>,
                Activate(blk.activation, r))


\* a chain whose blocks take the skip map first
RefineArgs_swapped(i, p, rn) == IF i = 4 THEN <<rn[4]>> ELSE <<rn[i], p[i + 1]>>

\* the arguments the forward pass hands to refinenet<i>
RefineArgs(i, p, rn) == IF i = 4 THEN <<rn[4]>> ELSE <<p[i + 1], rn[i]>>

\* the argument of self.scratch.output_conv
HeadArg(p) == p[1]


\* the shift added before the scale is applied
ScaleShift_shiftFirst(t, scale, shift) == [t EXCEPT !.val = (t.val + shift.n) * scale.n]

\* out * self.scale + self.shift
ScaleShift(t, scale, shift) == [t EXCEPT !.val = t.val * scale.n + shift.n]


\* a squeeze of the batch axis, dim=0
Squeeze_dim0(t) ==
    IF Len(t.shape) >= 1 /\ t.shape[1] = 1
    THEN [t EXCEPT !.shape = Tail(t.shape)]
    ELSE t

\* torch.squeeze(t, dim=1): the channel axis goes when its size is 1
Squeeze(t) ==
    IF Len(t.shape) >= 2 /\ t.shape[2] = 1
    THEN [t EXCEPT !.shape = <<t.shape[1]>> \o SubSeq(t.shape, 3, Len(t.shape))]
    ELSE t

\* F.interpolate(t, size=tuple(o.shape[2:]))
InterpolateTo(t, o) ==
    IF t.id = "error" THEN t
    ELSE [t EXCEPT !.shape = <<t.shape[1], t.shape[2]>> \o SubSeq(o.shape, 3, Len(o.shape))]

\* the auxiliary branch and the two return statements
ReturnValue(obj, monodepth, o, p, r) ==
    IF obj.has_aux
    THEN << o, InterpolateTo(Retag(Sequential(obj.auxlayer, p[2], r), "auxlayer"), o) >>
    ELSE IF monodepth THEN << Squeeze(o) >> ELSE << o >>

Entry(stage, ins) == [stage |-> stage, ins |-> ins]

RECURSIVE Ids(_)
Ids(ts) == IF ts = <<>> THEN <<>> ELSE <<Head(ts).id>> \o Ids(Tail(ts))

Raise(e) ==
    /\ pc' = "raised"
    /\ err' = e

\* a call of forward, up to the point where layer_1..layer_4 are (or are not) bound;
\* the channels_last branch only prints and discards the result of x.contiguous
Extract ==
    /\ pc \in {"ready", "returned"}
    /\ calls < MaxCalls
    /\ calls' = calls + 1
    /\ layer' = ExtractLayers(encoder, x, raw)
    /\ layer_rn' = NoLocals
    /\ path' = NoLocals
    /\ out' = Unbound
    /\ ret' = <<>>
    /\ log' = IF encoder.has_model /\ ~encoder.has_patch_size THEN <<>>
              ELSE << Entry(IF encoder.has_model THEN "forward_vit" ELSE "layers", <<"x">>) >>
    /\ pc' = ProjName[1]
    /\ UNCHANGED <<blocks, margs, encoder, mods, self, x, raw, err>>

\* layer_<i>_rn = self.scratch.layer<i>_rn(layer_<i>)
Project(i) ==
    /\ pc = ProjName[i]
    /\ LET t == LayerRn(i, layer[i], raw) IN
       IF layer[i] = Unbound
       THEN Raise("UnboundLocalError") /\ UNCHANGED <<layer_rn, log>>
       ELSE IF t.id = "error"
       THEN Raise("RuntimeError") /\ UNCHANGED <<layer_rn, log>>
       ELSE /\ layer_rn' = [layer_rn EXCEPT ![i] = t]
            /\ log' = Append(log, Entry(ProjName[i], <<layer[i].id>>))
            /\ pc' = IF i < 4 THEN ProjName[i + 1] ELSE RefName[4]
            /\ err' = err
    /\ UNCHANGED <<blocks, margs, encoder, mods, self, x, raw, calls, layer, path, out, ret>>

\* path_<i> = self.scratch.refinenet<i>(...)
Refine(i) ==
    /\ pc = RefName[i]
    /\ LET xs == RefineArgs(i, path, layer_rn)
           t  == FeatureFusion(i, self.refinenet[i], xs, raw)
       IN
       IF \E j \in DOMAIN xs : xs[j] = Unbound
       THEN Raise("UnboundLocalError") /\ UNCHANGED <<path, log>>
       ELSE IF t.id = "error"
       THEN Raise("RuntimeError") /\ UNCHANGED <<path, log>>
       ELSE /\ path' = [path EXCEPT ![i] = t]
            /\ log' = Append(log, Entry(RefName[i], Ids(xs)))
            /\ pc' = IF i > 1 THEN RefName[i - 1] ELSE "output_conv"
            /\ err' = err
    /\ UNCHANGED <<blocks, margs, encoder, mods, self, x, raw, calls, layer, layer_rn, out, ret>>

\* out = self.scratch.output_conv(path_1)
OutputHead ==
    /\ pc = "output_conv"
    /\ LET a == HeadArg(path)
           t == Retag(Sequential(self.output_conv, a, raw), "output_conv")
       IN
       IF a = Unbound
       THEN Raise("UnboundLocalError") /\ UNCHANGED <<out, log>>
       ELSE IF t.id = "error"
       THEN Raise("RuntimeError") /\ UNCHANGED <<out, log>>
       ELSE /\ out' = t
            /\ log' = Append(log, Entry("output_conv", <<a.id>>))
            /\ pc' = "scale_shift"
            /\ err' = err
    /\ UNCHANGED <<blocks, margs, encoder, mods, self, x, raw, calls, layer, layer_rn, path, ret>>

\* out = out * self.scale + self.shift
ScaleAndShift ==
    /\ pc = "scale_shift"
    /\ out' = ScaleShift(out, self.scale, self.shift)
    /\ pc' = "return"
    /\ UNCHANGED <<blocks, margs, encoder, mods, self, x, raw, err, calls, layer,
                   layer_rn, path, ret, log>>

\* the auxiliary branch, then return
Return ==
    /\ pc = "return"
    /\ ret' = ReturnValue(self, margs.monodepth, out, path, raw)
    /\ pc' = "returned"
    /\ UNCHANGED <<blocks, margs, encoder, mods, self, x, raw, err, calls, layer,
                   layer_rn, path, out, log>>

-----------------------------------------------------------------------------
(* Initial states: the arguments of the constructor and of forward *)

Ext(f, k, v) == SetItem(f, k, v)

\* the values a test passes under each key
Vals(k) ==
    CASE k = "activation" -> {PyStr("mish"), PyStr("hard_mish"), PyStr("leaky"),
                              PyStr("relu"), PyStr("gelu"), PyNone}
      [] k = "batch_norm" -> {PyTrue, PyFalse}
      [] k = "freeze_bn"  -> {PyTrue, PyFalse, PyNone, PyInt(0), PyStr("no")}
      [] k = "expand"     -> {PyTrue}
      [] k = "hooks"      -> {PyList("[2, 5, 8, 11]")}
      [] k = "use_readout" -> {PyStr("add")}
      [] k = "aux"        -> {PyTrue, PyFalse, PyNone}
      [] k = "widehead"   -> {PyTrue, PyFalse}
      [] k = "widehead_hr" -> {PyTrue, PyFalse}
      [] k = "scale"      -> {PyInt(n) : n \in (0 - MaxScale)..MaxScale}
      [] k = "shift"      -> {PyInt(n) : n \in (0 - MaxScale)..MaxScale}
      [] OTHER            -> {PyStr("ignored")}

\* every mapping that starts from base and, for each key of ks, either drops the
\* key or binds it to one of its values
RECURSIVE Variants(_, _)
Variants(base, ks) ==
    IF ks = {} THEN {base}
    ELSE LET k    == CHOOSE j \in ks : TRUE
             rest == Variants(base, ks \ {k})
         IN { [j \in DOMAIN f \ {k} |-> f[j]] : f \in rest }
            \cup { Ext(f, k, v) : f \in rest, v \in Vals(k) }

Sides == { 32 * m : m \in 1..MaxMult }
Images == { Tensor("x", <<b, 3, h, w>>, 0) : b \in 1..MaxBatch, h \in Sides, w \in Sides }
OneImage == Tensor("x", <<1, 3, 32, 32>>, 0)

Encoders == [has_model : BOOLEAN, has_patch_size : BOOLEAN]
UsableEncoders == { e \in Encoders : e.has_model => e.has_patch_size }

BackboneKinds == {"BatchNorm2d", "LayerNorm", "Conv2d"}
Backbones == { [j \in 1..NumBackboneMods |-> Module("pretrained", kd[j])] :
                    kd \in [1..NumBackboneMods -> BackboneKinds] }
OneBackbone ==
    [j \in 1..NumBackboneMods |->
        Module("pretrained", IF j % 2 = 1 THEN "BatchNorm2d" ELSE "Conv2d")]

Args(monos, nns, paths) == [monodepth : monos, non_negative : nns, path : paths]

InitWith(cfgs, argset, encs, backbones, images, raws) ==
    /\ blocks \in cfgs
    /\ margs \in argset
    /\ encoder \in encs
    /\ mods \in backbones
    /\ x \in images
    /\ raw \in raws
    /\ self = NoSelf
    /\ pc = "new"
    /\ err = "none"
    /\ calls = 0
    /\ layer = NoLocals
    /\ layer_rn = NoLocals
    /\ path = NoLocals
    /\ out = Unbound
    /\ ret = <<>>
    /\ log = <<>>

Next ==
    \/ Construct
    \/ Extract
    \/ \E i \in 1..4 : Project(i)
    \/ \E i \in 1..4 : Refine(i)
    \/ OutputHead
    \/ ScaleAndShift
    \/ Return

\* data flow and shapes: the heads, the auxiliary flag, the backbone shapes, the images
Init ==
    InitWith(Variants(DefaultBlocks, {"aux", "widehead", "widehead_hr"}),
             Args(BOOLEAN, {TRUE}, {FALSE}), Encoders, {OneBackbone}, Images, {1})
Spec == Init /\ [][Next]_vars

\* values: scale, shift, the clamp and the kernel results
InitValues ==
    InitWith(Variants(DefaultBlocks, {"scale", "shift"}),
             Args({TRUE}, BOOLEAN, {FALSE}), UsableEncoders, {OneBackbone}, {OneImage},
             (0 - MaxRaw)..MaxRaw)
SpecValues == InitValues /\ [][Next]_vars

\* freezing: freeze_bn, batch_norm, the heads, loading, the backbone's modules
InitFreeze ==
    InitWith(Variants(DefaultBlocks, {"freeze_bn", "batch_norm", "widehead"}),
             Args(BOOLEAN, {TRUE}, BOOLEAN), {[has_model |-> FALSE, has_patch_size |-> FALSE]},
             Backbones, {OneImage}, {1})
SpecFreeze == InitFreeze /\ [][Next]_vars

\* configuration: every subset of the keys, with and without an unrecognized key
ConfigVals(k) ==
    CASE k = "activation" -> Vals(k)
      [] k = "widehead"   -> Vals(k)
      [] k = "freeze_bn"  -> {PyFalse}
      [] k = "scale"      -> {PyInt(2)}
      [] k = "shift"      -> {PyInt(1)}
      [] OTHER            -> {PyTrue}

RECURSIVE Subsets(_)
Subsets(ks) ==
    IF ks = {} THEN {EmptyDict}
    ELSE LET k    == CHOOSE j \in ks : TRUE
             rest == Subsets(ks \ {k})
         IN rest \cup { Ext(f, k, v) : f \in rest, v \in ConfigVals(k) }

InitConfig ==
    InitWith(Subsets(Keys \cup {"colour"}),
             Args(BOOLEAN, {TRUE}, {FALSE}), {[has_model |-> FALSE, has_patch_size |-> FALSE]},
             {OneBackbone}, {OneImage}, {1})
SpecConfig == InitConfig /\ [][Next]_vars

-----------------------------------------------------------------------------
(* Properties *)

ProjSet == { ProjName[i] : i \in 1..4 }
RefSet  == { RefName[i] : i \in 1..4 }
Attempted == pc # "new"
AuxRequested == Has(blocks, "aux") /\ PyEq(blocks["aux"], PyTrue)
ImgB == x.shape[1]
ImgH == x.shape[3]
ImgW == x.shape[4]
CfgScale == IF Has(blocks, "scale") THEN blocks["scale"].n ELSE 1
CfgShift == IF Has(blocks, "shift") THEN blocks["shift"].n ELSE 0

\* C1: whatever subset of the keys the mapping holds, and for both values of
\* monodepth, construction never ends in a lookup failure (KeyError).
C1_NoLookupFailure == err \notin {"KeyError: widehead", "KeyError: widehead_hr"}

C3_AuxAttached ==
    (Attempted /\ AuxRequested) =>
        /\ err # "NameError: features2"
        /\ self.constructed => self.has_aux

\* C4: the four projections run before any fusion stage; the fusion stages run in
\* the order refinenet4, 3, 2, 1; refinenet4 consumes only the layer-4 projection,
\* refinenet i < 4 consumes the output of refinenet i+1 and the layer-i projection;
\* the head runs right after refinenet1 and consumes only its output.
C4_StageOrder ==
    /\ \A j, k \in DOMAIN log :
          (log[j].stage \in ProjSet /\ log[k].stage \in RefSet) => j < k
    /\ \A k \in DOMAIN log :
          log[k].stage \in RefSet =>
              \A i \in 1..4 : \E j \in 1..(k - 1) : log[j].stage = ProjName[i]
    /\ \A k \in DOMAIN log :
          log[k].stage = RefName[4] => log[k].ins = <<ProjName[4]>>
    /\ \A k \in DOMAIN log : \A i \in 1..3 :
          log[k].stage = RefName[i] =>
              /\ k > 1
              /\ log[k - 1].stage = RefName[i + 1]
              /\ log[k].ins = <<RefName[i + 1], ProjName[i]>>
    /\ \A k \in DOMAIN log :
          log[k].stage = "output_conv" =>
              /\ k > 1
              /\ log[k - 1].stage = RefName[1]
              /\ log[k].ins = <<RefName[1]>>

C4_Witness ==
    /\ pc = "returned"
    /\ Len(log) = 10
    /\ log[10].stage = "output_conv"

HW(t) == <<t.shape[3], t.shape[4]>>
Twice(hw) == <<2 * hw[1], 2 * hw[2]>>

\* C5: with backbone maps at strides 4, 8, 16, 32 every fusion block doubles the
\* resolution of its coarse input, the coarse and skip inputs of blocks 3, 2, 1
\* agree in resolution, the chain reaches 16x the deepest map, and the main
\* output of every head has the spatial size (H, W) of the image.
C5_Resolution ==
    /\ path[4] # Unbound => HW(path[4]) = Twice(HW(layer_rn[4]))
    /\ \A i \in 1..3 :
          path[i] # Unbound =>
              /\ HW(path[i + 1]) = HW(layer_rn[i])
              /\ HW(path[i]) = Twice(HW(path[i + 1]))
    /\ path[1] # Unbound =>
          HW(path[1]) = <<16 * layer[4].shape[3], 16 * layer[4].shape[4]>>
    /\ out # Unbound => HW(out) = <<ImgH, ImgW>>
    /\ pc = "returned" =>
          SubSeq(ret[1].shape, Len(ret[1].shape) - 1, Len(ret[1].shape)) = <<ImgH, ImgW>>

C5_Witness ==
    /\ pc = "returned"
    /\ self.head = "widehead_hr"
    /\ HW(layer[4]) = <<2, 1>>
    /\ HW(out) = <<64, 32>>

\* C6: no projection stage is reached with a feature map that was never produced.
C6_LayersBound == \A i \in 1..4 : pc = ProjName[i] => layer[i] # Unbound

\* C7 as claimed: in depth mode with non_negative = True every returned value is
\* >= 0, whatever scale and shift are configured.
C7_NonNegative ==
    (pc = "returned" /\ margs.monodepth /\ margs.non_negative) => ret[1].val >= 0

\* C7 as amended: the returned value is head(path_1) * scale + shift with the
\* clamp applied before the scale and shift; with non_negative = True it is
\* >= shift whenever scale >= 0.
C7_ScaleShiftAfterClamp ==
    (pc = "returned" /\ margs.monodepth) =>
        /\ ret[1].val = (IF margs.non_negative THEN Max(0, raw) ELSE raw) * CfgScale + CfgShift
        /\ (margs.non_negative /\ CfgScale >= 0) => ret[1].val >= CfgShift

C7_Witness ==
    /\ pc = "returned"
    /\ margs.monodepth /\ margs.non_negative
    /\ raw = 2 /\ CfgScale = 2 /\ CfgShift = 0 - 1
    /\ ret[1].val = 3

ExpectedActivation ==
    LET a == blocks["activation"] IN
    CASE a = PyStr("mish")      -> "Mish"
      [] a = PyStr("hard_mish") -> "HardMish"
      [] a = PyStr("leaky")     -> "LeakyReLU"
      [] a = PyStr("relu")      -> "ReLU"
      [] OTHER                  -> "Identity"

\* C8: for every value of activation construction installs the activation the
\* table names, shared by the four fusion blocks and the depth head.
C8_ActivationTotal ==
    Attempted =>
        /\ err \notin {"NameError: Mish", "NameError: HardMish"}
        /\ self.constructed =>
              /\ self.activation = ExpectedActivation
              /\ \A i \in 1..4 : self.refinenet[i].activation = self.activation
              /\ margs.monodepth => self.output_conv[4] = Activation(self.activation)

\* C9 as claimed: no step, construction included, changes the caller's mapping.
C9_BlocksReadOnly == [][blocks' = blocks]_vars

\* C9 as amended: no forward step changes the mapping, and construction changes
\* it in one case only: an absent activation key is added with the value None,
\* every other entry kept.  A model built from a mapping without the key and one
\* built from the mapping so changed both get the identity activation.
C9_OnlyActivationAdded ==
    [][ /\ IF pc = "new" /\ ~Has(blocks, "activation")
           THEN /\ DOMAIN blocks' = DOMAIN blocks \cup {"activation"}
                /\ blocks'["activation"] = PyNone
                /\ \A k \in DOMAIN blocks : blocks'[k] = blocks[k]
           ELSE blocks' = blocks
        /\ (pc = "new" /\ self'.constructed
              /\ (Has(blocks, "activation") => blocks["activation"] = PyNone))
           => self'.activation = "Identity" ]_vars

C9_Witness ==
    /\ pc = "returned"
    /\ calls = MaxCalls
    /\ blocks["activation"] = PyNone
    /\ Has(blocks, "colour")

FreezeOn == ~(Has(blocks, "freeze_bn") /\ PyEq(blocks["freeze_bn"], PyFalse))
Frozen(m) == ~m.training /\ ~m.wgrad /\ ~m.bgrad
Untouched(m) == m.training /\ m.wgrad /\ m.bgrad

\* C10: freezing is on unless freeze_bn is present and equal to False; when on,
\* every BatchNorm2d and LayerNorm of the backbone is in evaluation mode with
\* weight and bias non-trainable and every other module is as constructed; when
\* off every module is as constructed.  Weights are loaded when a path is given.
C10_FreezeBn ==
    self.constructed =>
        /\ self.freeze_bn = FreezeOn
        /\ self.loaded = margs.path
        /\ \A j \in DOMAIN mods :
              IF FreezeOn /\ mods[j].owner = "pretrained"
                  /\ mods[j].kind \in {"BatchNorm2d", "LayerNorm"}
              THEN Frozen(mods[j])
              ELSE Untouched(mods[j])

C10_Witness ==
    /\ self.constructed
    /\ margs.path
    /\ ~Has(blocks, "freeze_bn")
    /\ \E j \in DOMAIN mods :
          mods[j].owner = "pretrained" /\ mods[j].kind = "LayerNorm" /\ Frozen(mods[j])
    /\ \E j \in DOMAIN mods :
          mods[j].owner = "scratch.refinenet" /\ mods[j].kind = "BatchNorm2d"
    /\ \E j \in DOMAIN mods :
          mods[j].owner = "scratch.output_conv" /\ mods[j].kind = "BatchNorm2d"

====
